---- MODULE Spec2Model ----
(***************************************************************************)
(* Model of the Transmitter contract (src/lib.rs): account ledger,         *)
(* username registry with per-username mailboxes, sale-offer book and the  *)
(* administration record.  Every message of the contract is one action;   *)
(* the caller, the attached value and the outcome of an external transfer *)
(* are supplied by the environment.                                       *)
(*                                                                         *)
(* A message is called as the unit tests call it, on the contract value:  *)
(* what it has written to storage when it returns Err stays written.      *)
(***************************************************************************)
EXTENDS Integers, Sequences, FiniteSets, TLC

\* ------------------------------------------------------------------ bounds
MaxValue == 2          \* largest value attached to one call
MaxFee == 1            \* largest fee the owner sets
MaxContractBalance == 3 \* cap on the value the contract holds
MaxMailbox == 1        \* cap on the length of one mailbox
MaxOffers == 1         \* cap on the length of the sale-offer book
MaxBlock == 2          \* the mail runs over blocks 1..MaxBlock
MaxInbox == 2          \* cap on the length of one mailbox in the mail runs
MaxBook == 3           \* cap on the length of the offer book in the sale runs
MaxLetters == 3        \* cap on the length of one mailbox in the inbox runs

\* ------------------------------------------------------- environment sets
Accounts == {"alice", "bob"}
Names == {"", "Alice", "Bob"}
LedgerNames == {"", "Alice"}
MailNames == {"Alice", "Bob"}
BookNames == {"Alice", "Bob", "Carol"}
AllNames == Names \cup BookNames   \* the keys of the registry
Contents == {"hello"}
MailContents == {"hello", "bye"}
LetterContents == {"hello", "bye", "again"}
Prices == {5}
SalePrices == {5, 7}
Values == 0..MaxValue
Fees == 0..MaxFee

\* ------------------------------------------------------------ data types
None == [some |-> FALSE]
Some(v) == [some |-> TRUE, v |-> v]

UserInfo(names, bal) == [usernames |-> names, balance |-> bal]
UsernameInfo(acc, msgs, time) ==
    [account_id |-> acc, messages |-> msgs, fee_payment_time |-> time]
OwnerInfo(acc, bal) == [account_id |-> acc, balance |-> bal]
Message(from, mtype, content, hash, timestamp) ==
    [from |-> from, mtype |-> mtype, content |-> content,
     hash |-> hash, timestamp |-> timestamp]
Sale(username, to, price) == [username |-> username, to |-> to, price |-> price]

\* Result values
Ok == [tag |-> "Ok"]
OkVal(v) == [tag |-> "Ok", v |-> v]
Err(e) == [tag |-> e]
ErrName(e, n) == [tag |-> e, name |-> n]
PaymentFailed(received, required, missing) ==
    [tag |-> "PaymentFailed", received |-> received,
     required |-> required, missing |-> missing]
Panic == [tag |-> "panic"]

\* Sha2x256 over block_number.to_be_bytes() ++ content: the fixed-width
\* prefix makes the preimage determine (block_number, content); the digest
\* is taken to be collision free.
hash_bytes(block, content) == <<block, content>>

\* ----------------------------------------------------------------- state
VARIABLES
    users,              \* Mapping<AccountId, UserInfo>  (Option per key)
    usernames,          \* Mapping<Username, UsernameInfo>
    sale_offers,        \* Lazy<Option<Vec<Sale>>>: None = nothing stored
    owner,              \* OwnerInfo
    registration_fee,   \* Balance
    block_number,       \* environment: current block (also the timestamp)
    contract_balance,   \* environment: value attached so far minus value paid out
    last                \* the call that has just returned: message, caller,
                        \* arguments and result; Idle once the caller has it

store == <<users, usernames, sale_offers, owner, registration_fee>>
env == <<block_number, contract_balance>>
vars == <<users, usernames, sale_offers, owner, registration_fee,
          block_number, contract_balance, last>>

block_timestamp == block_number

\* Transmitter::new()
new(deployer) ==
    /\ users = [a \in Accounts |-> None]
    /\ usernames = [n \in AllNames |-> None]
    /\ sale_offers = None
    /\ owner = OwnerInfo(deployer, 0)
    /\ registration_fee = 1
    /\ block_number = 1
    /\ contract_balance = 0
    /\ last = [op |-> "new", caller |-> deployer, result |-> Ok]

Deployer == "alice"

Init == new(Deployer)

\* ---------------------------------------------------------------- helpers
\* Calls are delivered one at a time and run to completion: the next call
\* starts once the result of the previous one has been handed to its caller.
Idle == [op |-> "idle"]

Returns(op, caller, args, result) ==
    last' = [op |-> op, caller |-> caller, args |-> args, result |-> result]

\* env().transfer(to, amount): the environment decides the outcome, ok.  The
\* calls that may transfer take ok as an input (the answer the environment
\* gives if the call gets as far as the transfer).
transfer(to, amount, ok) ==
    contract_balance' = IF ok THEN contract_balance - amount ELSE contract_balance

\* The same for a call that got as far as env().transfer(to, amount): the
\* record also holds the recipient and the amount of the transfer it attempted.
ReturnsAfterTransfer(op, caller, args, result, to, amount) ==
    last' = [op |-> op, caller |-> caller, args |-> args, result |-> result,
             transfer |-> [to |-> to, amount |-> amount]]

unwrap_or(opt, default) == IF opt.some THEN opt.v ELSE default

\* Faulty variant of remove: the last element takes the place of the one
\* removed (Vec::swap_remove).
swap_remove(s, pos) ==
    [j \in 1..(Len(s) - 1) |-> IF j = pos THEN s[Len(s)] ELSE s[j]]

\* Vec::remove(pos), 1-based
remove(s, pos) == SubSeq(s, 1, pos - 1) \o SubSeq(s, pos + 1, Len(s))

\* ------------------------------------------------------------ check_fee
check_fee(caller) ==
    /\ Returns("check_fee", caller, <<>>, OkVal(registration_fee))
    /\ UNCHANGED <<store, env>>

\* ----------------------------------------------------- register_username
\* Faulty variant of name_taken: the registry is not consulted.
name_taken_never(name) == FALSE

\* if let Some(_) = self.usernames.get(&name)
name_taken(name) == usernames[name].some

\* The part of the payment that goes to owner.balance.
owner_credit(transferred) ==
    IF transferred > registration_fee THEN registration_fee ELSE 0

\* user_balance: the part of the payment that goes to the caller's balance.
user_credit(transferred) ==
    IF transferred > registration_fee THEN transferred - registration_fee
    ELSE IF transferred < registration_fee THEN transferred
    ELSE 0

\* Faulty variant of registered_user_info: the entry is rebuilt from the
\* payment alone, dropping the balance the account already had.
registered_user_info_fresh(user, name, user_balance) ==
    UserInfo(Some(Append(IF user.some THEN unwrap_or(user.v.usernames, <<>>) ELSE <<>>,
                         name)),
             user_balance)

\* The caller's entry after a registration: the name pushed on the stored
\* list and user_balance added, or a fresh entry when there was none.
registered_user_info(user, name, user_balance) ==
    IF user.some
    THEN UserInfo(Some(Append(unwrap_or(user.v.usernames, <<>>), name)),
                  user.v.balance + user_balance)
    ELSE UserInfo(Some(<<name>>), user_balance)

\* The caller's entry written when the payment is short of the fee.
underpaid_user_info(user, user_balance) == UserInfo(None, user_balance)

register_username(caller, name, transferred) ==
    /\ contract_balance' = contract_balance + transferred
    /\ UNCHANGED <<block_number, sale_offers, registration_fee>>
    /\ IF name_taken(name) THEN
          /\ Returns("register_username", caller, <<name, transferred>>, Err("NameTaken"))
          /\ UNCHANGED <<users, usernames, owner>>
       ELSE IF transferred < registration_fee THEN
          /\ users' = [users EXCEPT ![caller] =
                          Some(underpaid_user_info(users[caller], user_credit(transferred)))]
          /\ Returns("register_username", caller, <<name, transferred>>,
                     PaymentFailed(transferred, registration_fee,
                                   registration_fee - transferred))
          /\ UNCHANGED <<usernames, owner>>
       ELSE
          /\ owner' = [owner EXCEPT !.balance = @ + owner_credit(transferred)]
          /\ users' = [users EXCEPT ![caller] =
                          Some(registered_user_info(users[caller], name,
                                                    user_credit(transferred)))]
          /\ usernames' = [usernames EXCEPT ![name] =
                              Some(UsernameInfo(caller, None, block_timestamp))]
          /\ Returns("register_username", caller, <<name, transferred>>, Ok)

\* --------------------------------------------------------- get_usernames
get_usernames(caller) ==
    /\ Returns("get_usernames", caller, <<>>,
               IF users[caller].some
               THEN IF users[caller].v.usernames.some
                    THEN OkVal(users[caller].v.usernames.v)
                    ELSE Err("NoNames")
               ELSE Err("NoAccount"))
    /\ UNCHANGED <<store, env>>

\* ----------------------------------------------------------- get_balance
get_balance(caller) ==
    /\ Returns("get_balance", caller, <<>>,
               IF ~users[caller].some THEN Err("NoAccount")
               ELSE OkVal(users[caller].v.balance))
    /\ UNCHANGED <<store, env>>

\* ------------------------------------------------------ withdraw_balance
\* Faulty variant of withdraw_balance: the balance is zeroed before the
\* outcome of the transfer is known.
withdraw_balance_zero_first(caller, ok) ==
    /\ UNCHANGED <<usernames, sale_offers, owner, registration_fee,
                   block_number>>
    /\ IF ~users[caller].some \/ users[caller].v.balance = 0 THEN
          /\ Returns("withdraw_balance", caller, <<ok>>, Err("NoBalance"))
          /\ UNCHANGED <<users, contract_balance>>
       ELSE
          /\ transfer(caller, users[caller].v.balance, ok)
          /\ users' = [users EXCEPT ![caller] =
                          Some([users[caller].v EXCEPT !.balance = 0])]
          /\ ReturnsAfterTransfer("withdraw_balance", caller, <<ok>>,
                                  IF ok THEN Ok ELSE Err("WithdrawFailed"),
                                  caller, users[caller].v.balance)

\* Faulty variant of withdraw_balance: the entry is written back without its
\* usernames.
withdraw_balance_drop_names(caller, ok) ==
    /\ UNCHANGED <<usernames, sale_offers, owner, registration_fee,
                   block_number>>
    /\ IF ~users[caller].some \/ users[caller].v.balance = 0 THEN
          /\ Returns("withdraw_balance", caller, <<ok>>, Err("NoBalance"))
          /\ UNCHANGED <<users, contract_balance>>
       ELSE
          /\ transfer(caller, users[caller].v.balance, ok)
          /\ IF ~ok THEN
                /\ ReturnsAfterTransfer("withdraw_balance", caller, <<ok>>,
                                        Err("WithdrawFailed"),
                                        caller, users[caller].v.balance)
                /\ UNCHANGED users
             ELSE
                /\ users' = [users EXCEPT ![caller] = Some(UserInfo(None, 0))]
                /\ ReturnsAfterTransfer("withdraw_balance", caller, <<ok>>, Ok,
                                        caller, users[caller].v.balance)

withdraw_balance(caller, ok) ==
    /\ UNCHANGED <<usernames, sale_offers, owner, registration_fee,
                   block_number>>
    /\ IF ~users[caller].some \/ users[caller].v.balance = 0 THEN
          /\ Returns("withdraw_balance", caller, <<ok>>, Err("NoBalance"))
          /\ UNCHANGED <<users, contract_balance>>
       ELSE
          /\ transfer(caller, users[caller].v.balance, ok)
          /\ IF ~ok THEN
                /\ ReturnsAfterTransfer("withdraw_balance", caller, <<ok>>,
                                        Err("WithdrawFailed"),
                                        caller, users[caller].v.balance)
                /\ UNCHANGED users
             ELSE
                /\ users' = [users EXCEPT ![caller] =
                                Some([users[caller].v EXCEPT !.balance = 0])]
                /\ ReturnsAfterTransfer("withdraw_balance", caller, <<ok>>, Ok,
                                        caller, users[caller].v.balance)

\* --------------------------------------------------------- close_account
RECURSIVE remove_all(_, _)
remove_all(map, names) ==
    IF names = <<>> THEN map
    ELSE remove_all([map EXCEPT ![Head(names)] = None], Tail(names))

\* Faulty variant of close_account: the usernames are removed before the
\* payout is attempted.
close_account_remove_first(caller, ok) ==
    /\ UNCHANGED <<sale_offers, owner, registration_fee, block_number>>
    /\ IF ~users[caller].some THEN
          /\ Returns("close_account", caller, <<ok>>, Err("NoAccount"))
          /\ UNCHANGED <<users, usernames, contract_balance>>
       ELSE
          /\ usernames' = remove_all(usernames,
                                     unwrap_or(users[caller].v.usernames, <<>>))
          /\ IF users[caller].v.balance > 0 /\ ~ok THEN
                /\ transfer(caller, users[caller].v.balance, FALSE)
                /\ ReturnsAfterTransfer("close_account", caller, <<ok>>,
                                        Err("CloseAccountFailed"),
                                        caller, users[caller].v.balance)
                /\ UNCHANGED users
             ELSE
                /\ IF users[caller].v.balance > 0
                   THEN transfer(caller, users[caller].v.balance, TRUE)
                   ELSE UNCHANGED contract_balance
                /\ users' = [users EXCEPT ![caller] = None]
                /\ IF users[caller].v.balance > 0
                   THEN ReturnsAfterTransfer("close_account", caller, <<ok>>, Ok,
                                             caller, users[caller].v.balance)
                   ELSE Returns("close_account", caller, <<ok>>, Ok)

\* Faulty variant of close_account: the account entry is left in the ledger.
close_account_keep_entry(caller, ok) ==
    /\ UNCHANGED <<sale_offers, owner, registration_fee, block_number>>
    /\ IF ~users[caller].some THEN
          /\ Returns("close_account", caller, <<ok>>, Err("NoAccount"))
          /\ UNCHANGED <<users, usernames, contract_balance>>
       ELSE IF users[caller].v.balance > 0 /\ ~ok THEN
          /\ transfer(caller, users[caller].v.balance, FALSE)
          /\ ReturnsAfterTransfer("close_account", caller, <<ok>>,
                                  Err("CloseAccountFailed"),
                                  caller, users[caller].v.balance)
          /\ UNCHANGED <<users, usernames>>
       ELSE
          /\ IF users[caller].v.balance > 0
             THEN transfer(caller, users[caller].v.balance, TRUE)
             ELSE UNCHANGED contract_balance
          /\ usernames' = remove_all(usernames,
                                     unwrap_or(users[caller].v.usernames, <<>>))
          /\ users' = [users EXCEPT ![caller] =
                          Some(UserInfo(None, users[caller].v.balance))]
          /\ IF users[caller].v.balance > 0
             THEN ReturnsAfterTransfer("close_account", caller, <<ok>>, Ok,
                                       caller, users[caller].v.balance)
             ELSE Returns("close_account", caller, <<ok>>, Ok)

\* Faulty variant of close_account: the usernames stay in the registry.
close_account_keep_names(caller, ok) ==
    /\ UNCHANGED <<sale_offers, owner, registration_fee, block_number>>
    /\ IF ~users[caller].some THEN
          /\ Returns("close_account", caller, <<ok>>, Err("NoAccount"))
          /\ UNCHANGED <<users, usernames, contract_balance>>
       ELSE IF users[caller].v.balance > 0 /\ ~ok THEN
          /\ transfer(caller, users[caller].v.balance, FALSE)
          /\ ReturnsAfterTransfer("close_account", caller, <<ok>>,
                                  Err("CloseAccountFailed"),
                                  caller, users[caller].v.balance)
          /\ UNCHANGED <<users, usernames>>
       ELSE
          /\ IF users[caller].v.balance > 0
             THEN transfer(caller, users[caller].v.balance, TRUE)
             ELSE UNCHANGED contract_balance
          /\ UNCHANGED usernames
          /\ users' = [users EXCEPT ![caller] = None]
          /\ IF users[caller].v.balance > 0
             THEN ReturnsAfterTransfer("close_account", caller, <<ok>>, Ok,
                                       caller, users[caller].v.balance)
             ELSE Returns("close_account", caller, <<ok>>, Ok)

close_account(caller, ok) ==
    /\ UNCHANGED <<sale_offers, owner, registration_fee,
                   block_number>>
    /\ IF ~users[caller].some THEN
          /\ Returns("close_account", caller, <<ok>>, Err("NoAccount"))
          /\ UNCHANGED <<users, usernames, contract_balance>>
       ELSE IF users[caller].v.balance > 0 /\ ~ok THEN
          /\ transfer(caller, users[caller].v.balance, FALSE)
          /\ ReturnsAfterTransfer("close_account", caller, <<ok>>,
                                  Err("CloseAccountFailed"),
                                  caller, users[caller].v.balance)
          /\ UNCHANGED <<users, usernames>>
       ELSE
          /\ IF users[caller].v.balance > 0
             THEN transfer(caller, users[caller].v.balance, TRUE)
             ELSE UNCHANGED contract_balance
          /\ usernames' = remove_all(usernames,
                                     unwrap_or(users[caller].v.usernames, <<>>))
          /\ users' = [users EXCEPT ![caller] = None]
          /\ IF users[caller].v.balance > 0
             THEN ReturnsAfterTransfer("close_account", caller, <<ok>>, Ok,
                                       caller, users[caller].v.balance)
             ELSE Returns("close_account", caller, <<ok>>, Ok)

\* ------------------------------------------------------ owner operations
co_transfer_contract_ownership(caller, new_owner) ==
    /\ UNCHANGED <<users, usernames, sale_offers, registration_fee, env>>
    /\ IF caller = owner.account_id THEN
          /\ owner' = [owner EXCEPT !.account_id = new_owner]
          /\ Returns("co_transfer_contract_ownership", caller, <<new_owner>>, Ok)
       ELSE
          /\ UNCHANGED owner
          /\ Returns("co_transfer_contract_ownership", caller, <<new_owner>>,
                     Err("NotContractOwner"))

\* set_code_hash either succeeds or fails; the storage is not touched
co_set_code(caller, ok) ==
    /\ UNCHANGED <<store, env>>
    /\ IF caller = owner.account_id THEN
          Returns("co_set_code", caller, <<ok>>,
                  IF ok THEN Ok ELSE Err("UpgradeFailed"))
       ELSE
          Returns("co_set_code", caller, <<ok>>, Err("NotContractOwner"))

\* Faulty variant of co_set_fee: the fee is stored before the caller is
\* compared with the owner.
co_set_fee_store_first(caller, new_fee) ==
    /\ UNCHANGED <<users, usernames, sale_offers, owner, env>>
    /\ registration_fee' = new_fee
    /\ IF caller = owner.account_id THEN
          Returns("co_set_fee", caller, <<new_fee>>, Ok)
       ELSE
          Returns("co_set_fee", caller, <<new_fee>>, Err("NotContractOwner"))

co_set_fee(caller, new_fee) ==
    /\ UNCHANGED <<users, usernames, sale_offers, owner, env>>
    /\ IF caller = owner.account_id THEN
          /\ registration_fee' = new_fee
          /\ Returns("co_set_fee", caller, <<new_fee>>, Ok)
       ELSE
          /\ UNCHANGED registration_fee
          /\ Returns("co_set_fee", caller, <<new_fee>>, Err("NotContractOwner"))

\* Faulty variant of co_owner_withdraw_all_balance: the accrued balance is
\* zeroed whatever the outcome of the transfer.
co_owner_withdraw_all_balance_zero_first(caller, ok) ==
    /\ UNCHANGED <<users, usernames, sale_offers, registration_fee,
                   block_number>>
    /\ IF owner.balance > 0 THEN
          /\ transfer(owner.account_id, owner.balance, ok)
          /\ owner' = [owner EXCEPT !.balance = 0]
          /\ ReturnsAfterTransfer("co_owner_withdraw_all_balance", caller, <<ok>>,
                                  IF ok THEN Ok ELSE Err("WithdrawFailed"),
                                  owner.account_id, owner.balance)
       ELSE
          /\ UNCHANGED <<owner, contract_balance>>
          /\ Returns("co_owner_withdraw_all_balance", caller, <<ok>>,
                     Err("NoBalance"))

co_owner_withdraw_all_balance(caller, ok) ==
    /\ UNCHANGED <<users, usernames, sale_offers, registration_fee,
                   block_number>>
    /\ IF owner.balance > 0 THEN
          /\ transfer(owner.account_id, owner.balance, ok)
          /\ IF ~ok THEN
                /\ UNCHANGED owner
                /\ ReturnsAfterTransfer("co_owner_withdraw_all_balance", caller, <<ok>>,
                                        Err("WithdrawFailed"),
                                        owner.account_id, owner.balance)
             ELSE
                /\ owner' = [owner EXCEPT !.balance = 0]
                /\ ReturnsAfterTransfer("co_owner_withdraw_all_balance", caller, <<ok>>, Ok,
                                        owner.account_id, owner.balance)
       ELSE
          /\ UNCHANGED <<owner, contract_balance>>
          /\ Returns("co_owner_withdraw_all_balance", caller, <<ok>>,
                     Err("NoBalance"))

\* ---------------------------------------------------------- send_message
\* Faulty variant of send_message: to is looked up before from.
send_message_to_first(caller, from, to, mtype, content) ==
    /\ UNCHANGED <<users, sale_offers, owner, registration_fee, env>>
    /\ IF ~usernames[to].some THEN
          /\ Returns("send_message", caller, <<from, to, mtype, content>>,
                     ErrName("NameNonexistent", to))
          /\ UNCHANGED usernames
       ELSE IF ~usernames[from].some THEN
          /\ Returns("send_message", caller, <<from, to, mtype, content>>,
                     ErrName("NameNonexistent", from))
          /\ UNCHANGED usernames
       ELSE IF usernames[from].v.account_id # caller THEN
          /\ Returns("send_message", caller, <<from, to, mtype, content>>,
                     ErrName("WrongAccount", from))
          /\ UNCHANGED usernames
       ELSE
          LET username_info == usernames[to].v
              messages == unwrap_or(username_info.messages, <<>>)
              hash == hash_bytes(block_number, content)
              pushed == Append(messages,
                               Message(from, mtype, content, hash, block_timestamp))
          IN  /\ usernames' = [usernames EXCEPT ![to] =
                                  Some(UsernameInfo(username_info.account_id,
                                                    Some(pushed),
                                                    username_info.fee_payment_time))]
              /\ Returns("send_message", caller, <<from, to, mtype, content>>, Ok)

\* Faulty variant of send_message: the message is put at the head of the
\* mailbox.
send_message_prepend(caller, from, to, mtype, content) ==
    /\ UNCHANGED <<users, sale_offers, owner, registration_fee, env>>
    /\ IF ~usernames[from].some THEN
          /\ Returns("send_message", caller, <<from, to, mtype, content>>,
                     ErrName("NameNonexistent", from))
          /\ UNCHANGED usernames
       ELSE IF usernames[from].v.account_id # caller THEN
          /\ Returns("send_message", caller, <<from, to, mtype, content>>,
                     ErrName("WrongAccount", from))
          /\ UNCHANGED usernames
       ELSE IF ~usernames[to].some THEN
          /\ Returns("send_message", caller, <<from, to, mtype, content>>,
                     ErrName("NameNonexistent", to))
          /\ UNCHANGED usernames
       ELSE
          LET username_info == usernames[to].v
              messages == unwrap_or(username_info.messages, <<>>)
              hash == hash_bytes(block_number, content)
              pushed == <<Message(from, mtype, content, hash, block_timestamp)>>
                        \o messages
          IN  /\ usernames' = [usernames EXCEPT ![to] =
                                  Some(UsernameInfo(username_info.account_id,
                                                    Some(pushed),
                                                    username_info.fee_payment_time))]
              /\ Returns("send_message", caller, <<from, to, mtype, content>>, Ok)

send_message(caller, from, to, mtype, content) ==
    /\ UNCHANGED <<users, sale_offers, owner, registration_fee, env>>
    /\ IF ~usernames[from].some THEN
          /\ Returns("send_message", caller, <<from, to, mtype, content>>,
                     ErrName("NameNonexistent", from))
          /\ UNCHANGED usernames
       ELSE IF usernames[from].v.account_id # caller THEN
          /\ Returns("send_message", caller, <<from, to, mtype, content>>,
                     ErrName("WrongAccount", from))
          /\ UNCHANGED usernames
       ELSE IF ~usernames[to].some THEN
          /\ Returns("send_message", caller, <<from, to, mtype, content>>,
                     ErrName("NameNonexistent", to))
          /\ UNCHANGED usernames
       ELSE
          LET username_info == usernames[to].v
              messages == unwrap_or(username_info.messages, <<>>)
              hash == hash_bytes(block_number, content)
              pushed == Append(messages,
                               Message(from, mtype, content, hash, block_timestamp))
          IN  /\ usernames' = [usernames EXCEPT ![to] =
                                  Some(UsernameInfo(username_info.account_id,
                                                    Some(pushed),
                                                    username_info.fee_payment_time))]
              /\ Returns("send_message", caller, <<from, to, mtype, content>>, Ok)

\* ------------------------------------------------------ get_all_messages
\* Faulty variant of get_all_messages: the caller is not compared with the
\* owner.
get_all_messages_any(caller, belonging_to) ==
    /\ UNCHANGED <<store, env>>
    /\ Returns("get_all_messages", caller, <<belonging_to>>,
               IF ~usernames[belonging_to].some
               THEN ErrName("NameNonexistent", belonging_to)
               ELSE IF ~usernames[belonging_to].v.messages.some
               THEN Err("NoMessages")
               ELSE IF Len(usernames[belonging_to].v.messages.v) = 0
               THEN Err("NoMessages")
               ELSE OkVal(usernames[belonging_to].v.messages.v))

get_all_messages(caller, belonging_to) ==
    /\ UNCHANGED <<store, env>>
    /\ Returns("get_all_messages", caller, <<belonging_to>>,
               IF ~usernames[belonging_to].some
               THEN ErrName("NameNonexistent", belonging_to)
               ELSE IF caller # usernames[belonging_to].v.account_id
               THEN ErrName("WrongAccount", belonging_to)
               ELSE IF ~usernames[belonging_to].v.messages.some
               THEN Err("NoMessages")
               ELSE IF Len(usernames[belonging_to].v.messages.v) = 0
               THEN Err("NoMessages")
               ELSE OkVal(usernames[belonging_to].v.messages.v))

\* -------------------------------------------------------- delete_message
\* The scan has no break: msg_pos ends as the position of the last message
\* whose hash matches (0 when there is none).
RECURSIVE msg_pos(_, _, _, _)
msg_pos(messages, hash, pos, found) ==
    IF pos > Len(messages) THEN found
    ELSE msg_pos(messages, hash, pos + 1,
                 IF messages[pos].hash = hash THEN pos ELSE found)

\* Faulty variant of delete_message: the entry is written back with the time
\* of the call as fee_payment_time.
delete_message_restamp(caller, belonging_to, hash) ==
    /\ UNCHANGED <<users, sale_offers, owner, registration_fee, env>>
    /\ IF ~usernames[belonging_to].some THEN
          /\ Returns("delete_message", caller, <<belonging_to, hash>>,
                     ErrName("NameNonexistent", belonging_to))
          /\ UNCHANGED usernames
       ELSE IF usernames[belonging_to].v.account_id # caller THEN
          /\ Returns("delete_message", caller, <<belonging_to, hash>>,
                     ErrName("WrongAccount", belonging_to))
          /\ UNCHANGED usernames
       ELSE IF ~usernames[belonging_to].v.messages.some THEN
          /\ Returns("delete_message", caller, <<belonging_to, hash>>, Err("NoMessages"))
          /\ UNCHANGED usernames
       ELSE
          LET username_info == usernames[belonging_to].v
              messages == username_info.messages.v
              pos == msg_pos(messages, hash, 1, 0)
              rest == remove(messages, pos)
          IN  IF pos = 0 THEN
                 /\ Returns("delete_message", caller, <<belonging_to, hash>>,
                            Err("MessageNonexistent"))
                 /\ UNCHANGED usernames
              ELSE
                 /\ usernames' = [usernames EXCEPT ![belonging_to] =
                        Some(UsernameInfo(caller,
                                          IF Len(rest) = 0 THEN None ELSE Some(rest),
                                          block_timestamp))]
                 /\ Returns("delete_message", caller, <<belonging_to, hash>>, Ok)

delete_message(caller, belonging_to, hash) ==
    /\ UNCHANGED <<users, sale_offers, owner, registration_fee, env>>
    /\ IF ~usernames[belonging_to].some THEN
          /\ Returns("delete_message", caller, <<belonging_to, hash>>,
                     ErrName("NameNonexistent", belonging_to))
          /\ UNCHANGED usernames
       ELSE IF usernames[belonging_to].v.account_id # caller THEN
          /\ Returns("delete_message", caller, <<belonging_to, hash>>,
                     ErrName("WrongAccount", belonging_to))
          /\ UNCHANGED usernames
       ELSE IF ~usernames[belonging_to].v.messages.some THEN
          /\ Returns("delete_message", caller, <<belonging_to, hash>>, Err("NoMessages"))
          /\ UNCHANGED usernames
       ELSE
          LET username_info == usernames[belonging_to].v
              messages == username_info.messages.v
              pos == msg_pos(messages, hash, 1, 0)
              rest == remove(messages, pos)
          IN  IF pos = 0 THEN
                 /\ Returns("delete_message", caller, <<belonging_to, hash>>,
                            Err("MessageNonexistent"))
                 /\ UNCHANGED usernames
              ELSE
                 /\ usernames' = [usernames EXCEPT ![belonging_to] =
                        Some(UsernameInfo(caller,
                                          IF Len(rest) = 0 THEN None ELSE Some(rest),
                                          username_info.fee_payment_time))]
                 /\ Returns("delete_message", caller, <<belonging_to, hash>>, Ok)

\* --------------------------------------------------- delete_all_messages
\* Faulty variant of delete_all_messages: an empty mailbox is stored.
delete_all_messages_empty(caller, username) ==
    /\ UNCHANGED <<users, sale_offers, owner, registration_fee, env>>
    /\ IF ~usernames[username].some THEN
          /\ Returns("delete_all_messages", caller, <<username>>,
                     ErrName("NameNonexistent", username))
          /\ UNCHANGED usernames
       ELSE IF usernames[username].v.account_id # caller THEN
          /\ Returns("delete_all_messages", caller, <<username>>,
                     ErrName("WrongAccount", username))
          /\ UNCHANGED usernames
       ELSE
          /\ usernames' = [usernames EXCEPT ![username] =
                              Some([usernames[username].v EXCEPT !.messages = Some(<<>>)])]
          /\ Returns("delete_all_messages", caller, <<username>>, Ok)

delete_all_messages(caller, username) ==
    /\ UNCHANGED <<users, sale_offers, owner, registration_fee, env>>
    /\ IF ~usernames[username].some THEN
          /\ Returns("delete_all_messages", caller, <<username>>,
                     ErrName("NameNonexistent", username))
          /\ UNCHANGED usernames
       ELSE IF usernames[username].v.account_id # caller THEN
          /\ Returns("delete_all_messages", caller, <<username>>,
                     ErrName("WrongAccount", username))
          /\ UNCHANGED usernames
       ELSE
          /\ usernames' = [usernames EXCEPT ![username] =
                              Some([usernames[username].v EXCEPT !.messages = None])]
          /\ Returns("delete_all_messages", caller, <<username>>, Ok)

\* ------------------------------------------------------ sell_username_to
\* Faulty variant of sale_pos: the scan finds nothing.
sale_pos_none(offers, username, pos) == 0

\* Position of the first offer for username in the book, 0 when there is none.
RECURSIVE sale_pos(_, _, _)
sale_pos(offers, username, pos) ==
    IF pos > Len(offers) THEN 0
    ELSE IF offers[pos].username = username THEN pos
    ELSE sale_pos(offers, username, pos + 1)

\* The offers stored in the book; empty when nothing or None is stored.
stored_offers == IF sale_offers.some THEN unwrap_or(sale_offers.v, <<>>) ELSE <<>>

sell_username_to(caller, username, to, price) ==
    /\ UNCHANGED <<users, usernames, owner, registration_fee, env>>
    /\ IF ~usernames[username].some THEN
          /\ Returns("sell_username_to", caller, <<username, to, price>>,
                     ErrName("NameNonexistent", username))
          /\ UNCHANGED sale_offers
       ELSE IF usernames[username].v.account_id # caller THEN
          /\ Returns("sell_username_to", caller, <<username, to, price>>,
                     ErrName("WrongAccount", username))
          /\ UNCHANGED sale_offers
       ELSE IF sale_offers.some /\ sale_offers.v.some
               /\ sale_pos(sale_offers.v.v, username, 1) # 0 THEN
          /\ Returns("sell_username_to", caller, <<username, to, price>>,
                     Err("UsernameAlreadyInSale"))
          /\ UNCHANGED sale_offers
       ELSE
          /\ sale_offers' = Some(Some(Append(stored_offers, Sale(username, to, price))))
          /\ Returns("sell_username_to", caller, <<username, to, price>>, Ok)

\* ----------------------------------------------------------- cancel_sale
\* Faulty variant of cancel_sale: the whole book is cleared.
cancel_sale_all(caller, username) ==
    /\ UNCHANGED <<users, usernames, owner, registration_fee, env>>
    /\ IF ~usernames[username].some THEN
          /\ Returns("cancel_sale", caller, <<username>>,
                     ErrName("NameNonexistent", username))
          /\ UNCHANGED sale_offers
       ELSE IF usernames[username].v.account_id # caller THEN
          /\ Returns("cancel_sale", caller, <<username>>,
                     ErrName("WrongAccount", username))
          /\ UNCHANGED sale_offers
       ELSE IF ~(sale_offers.some /\ sale_offers.v.some)
               \/ sale_pos(stored_offers, username, 1) = 0 THEN
          /\ Returns("cancel_sale", caller, <<username>>, Err("UsernameNotInSale"))
          /\ UNCHANGED sale_offers
       ELSE
          /\ sale_offers' = Some(None)
          /\ Returns("cancel_sale", caller, <<username>>, Ok)

\* Faulty variant of cancel_sale: the last offer of the book is removed.
cancel_sale_last(caller, username) ==
    /\ UNCHANGED <<users, usernames, owner, registration_fee, env>>
    /\ IF ~usernames[username].some THEN
          /\ Returns("cancel_sale", caller, <<username>>,
                     ErrName("NameNonexistent", username))
          /\ UNCHANGED sale_offers
       ELSE IF usernames[username].v.account_id # caller THEN
          /\ Returns("cancel_sale", caller, <<username>>,
                     ErrName("WrongAccount", username))
          /\ UNCHANGED sale_offers
       ELSE IF ~(sale_offers.some /\ sale_offers.v.some)
               \/ sale_pos(stored_offers, username, 1) = 0 THEN
          /\ Returns("cancel_sale", caller, <<username>>, Err("UsernameNotInSale"))
          /\ UNCHANGED sale_offers
       ELSE
          LET rest == remove(stored_offers, Len(stored_offers))
          IN  /\ sale_offers' = IF Len(rest) = 0 THEN Some(None) ELSE Some(Some(rest))
              /\ Returns("cancel_sale", caller, <<username>>, Ok)

\* Faulty variant of cancel_sale: the offer is removed by exchanging it with
\* the last offer of the book.
cancel_sale_swap(caller, username) ==
    /\ UNCHANGED <<users, usernames, owner, registration_fee, env>>
    /\ IF ~usernames[username].some THEN
          /\ Returns("cancel_sale", caller, <<username>>,
                     ErrName("NameNonexistent", username))
          /\ UNCHANGED sale_offers
       ELSE IF usernames[username].v.account_id # caller THEN
          /\ Returns("cancel_sale", caller, <<username>>,
                     ErrName("WrongAccount", username))
          /\ UNCHANGED sale_offers
       ELSE IF ~(sale_offers.some /\ sale_offers.v.some)
               \/ sale_pos(stored_offers, username, 1) = 0 THEN
          /\ Returns("cancel_sale", caller, <<username>>, Err("UsernameNotInSale"))
          /\ UNCHANGED sale_offers
       ELSE
          LET pos == sale_pos(stored_offers, username, 1)
              last_pos == Len(stored_offers)
              rest == [j \in 1..(last_pos - 1) |->
                         IF j = pos THEN stored_offers[last_pos] ELSE stored_offers[j]]
          IN  /\ sale_offers' = IF Len(rest) = 0 THEN Some(None) ELSE Some(Some(rest))
              /\ Returns("cancel_sale", caller, <<username>>, Ok)

cancel_sale(caller, username) ==
    /\ UNCHANGED <<users, usernames, owner, registration_fee, env>>
    /\ IF ~usernames[username].some THEN
          /\ Returns("cancel_sale", caller, <<username>>,
                     ErrName("NameNonexistent", username))
          /\ UNCHANGED sale_offers
       ELSE IF usernames[username].v.account_id # caller THEN
          /\ Returns("cancel_sale", caller, <<username>>,
                     ErrName("WrongAccount", username))
          /\ UNCHANGED sale_offers
       ELSE IF ~(sale_offers.some /\ sale_offers.v.some)
               \/ sale_pos(stored_offers, username, 1) = 0 THEN
          /\ Returns("cancel_sale", caller, <<username>>, Err("UsernameNotInSale"))
          /\ UNCHANGED sale_offers
       ELSE
          LET rest == remove(stored_offers, sale_pos(stored_offers, username, 1))
          IN  /\ sale_offers' = IF Len(rest) = 0 THEN Some(None) ELSE Some(Some(rest))
              /\ Returns("cancel_sale", caller, <<username>>, Ok)

\* ------------------------------------------------- get_sale_propositions
\* Faulty variant of sales_to_user: the whole book is returned.
sales_to_user_all(offers, caller) == offers

RECURSIVE sales_to_user(_, _)
sales_to_user(offers, caller) ==
    IF offers = <<>> THEN <<>>
    ELSE (IF Head(offers).to = caller THEN <<Head(offers)>> ELSE <<>>)
         \o sales_to_user(Tail(offers), caller)

get_sale_propositions(caller) ==
    /\ UNCHANGED <<store, env>>
    /\ Returns("get_sale_propositions", caller, <<>>,
               IF sale_offers.some /\ sale_offers.v.some
                  /\ Len(sales_to_user(sale_offers.v.v, caller)) # 0
               THEN OkVal(sales_to_user(sale_offers.v.v, caller))
               ELSE Err("NoSalesForYou"))

\* ------------------------------------------ buy_username / refuse_to_buy
\* Both bodies are todo!(): the call panics and nothing is written.
buy_username(caller, username) ==
    /\ UNCHANGED <<store, env>>
    /\ Returns("buy_username", caller, <<username>>, Panic)

refuse_to_buy(caller, username) ==
    /\ UNCHANGED <<store, env>>
    /\ Returns("refuse_to_buy", caller, <<username>>, Panic)

\* ------------------------------------------------------------ environment
receive_result ==
    /\ last # Idle
    /\ last' = Idle
    /\ UNCHANGED <<store, env>>

\* The chain moves to the next block (block number and timestamp advance
\* together).
next_block ==
    /\ last = Idle
    /\ block_number < MaxBlock
    /\ block_number' = block_number + 1
    /\ UNCHANGED <<store, contract_balance, last>>

mailbox_len(to) ==
    IF usernames[to].some THEN Len(unwrap_or(usernames[to].v.messages, <<>>)) ELSE 0

\* One call of any message of the contract.  in is the record of the sets
\* the inputs are drawn from and of the caps on the contract's value, the
\* mailboxes and the offer book.
Call(in) ==
    \/ last = Idle /\ \E c \in in.accounts : check_fee(c)
    \/ last = Idle /\ \E c \in in.accounts, n \in in.names, v \in in.values :
          contract_balance + v <= in.max_balance /\ register_username(c, n, v)
    \/ last = Idle /\ \E c \in in.accounts : get_usernames(c)
    \/ last = Idle /\ \E c \in in.accounts : get_balance(c)
    \/ last = Idle /\ \E c \in in.accounts, f \in in.senders, t \in in.receivers,
          m \in in.mtypes, x \in in.contents :
          mailbox_len(t) < in.max_mailbox /\ send_message(c, f, t, m, x)
    \/ last = Idle /\ \E c \in in.accounts, n \in in.receivers : get_all_messages(c, n)
    \/ last = Idle /\ \E c \in in.accounts, n \in in.receivers, x \in in.contents,
          b \in 1..block_number : delete_message(c, n, hash_bytes(b, x))
    \/ last = Idle /\ \E c \in in.accounts, n \in in.receivers : delete_all_messages(c, n)
    \/ last = Idle /\ \E c \in in.accounts, ok \in BOOLEAN : withdraw_balance(c, ok)
    \/ last = Idle /\ \E c \in in.accounts, n \in in.for_sale, t \in in.buyers, p \in in.prices :
          Len(stored_offers) < in.max_offers /\ sell_username_to(c, n, t, p)
    \/ last = Idle /\ \E c \in in.accounts, n \in in.for_sale : cancel_sale(c, n)
    \/ last = Idle /\ \E c \in in.accounts : get_sale_propositions(c)
    \/ last = Idle /\ \E c \in in.accounts, n \in in.for_sale : buy_username(c, n)
    \/ last = Idle /\ \E c \in in.accounts, n \in in.for_sale : refuse_to_buy(c, n)
    \/ last = Idle /\ \E c \in in.accounts, ok \in BOOLEAN : close_account(c, ok)
    \/ last = Idle /\ \E c \in in.accounts, a \in in.new_owners : co_transfer_contract_ownership(c, a)
    \/ last = Idle /\ \E c \in in.accounts, ok \in BOOLEAN : co_set_code(c, ok)
    \/ last = Idle /\ \E c \in in.accounts, f \in in.fees : co_set_fee(c, f)
    \/ last = Idle /\ \E c \in in.accounts, ok \in BOOLEAN : co_owner_withdraw_all_balance(c, ok)

\* Ledger and administration: every message of the contract within one block,
\* all payments and fees, two names to register, mail and offers for "Alice".
LedgerInputs ==
    [accounts |-> Accounts, names |-> LedgerNames, values |-> Values, fees |-> Fees,
     senders |-> {"Alice"}, receivers |-> {"Alice"}, mtypes |-> {"Text"},
     contents |-> Contents, for_sale |-> {"Alice"}, buyers |-> Accounts,
     prices |-> Prices, new_owners |-> Accounts,
     max_balance |-> MaxContractBalance, max_mailbox |-> MaxMailbox,
     max_offers |-> MaxOffers]

Next ==
    \/ Call(LedgerInputs)
    \/ receive_result

Spec == Init /\ [][Next]_vars

\* Mail: two names that send each other two contents, mailboxes of up to
\* MaxInbox messages; registration is free once the owner has set the fee to
\* 0 (as the unit test does) and nothing is attached to a call; no registered
\* name is offered for sale and the contract keeps its owner.
MailInputs ==
    [accounts |-> Accounts, names |-> MailNames, values |-> {0}, fees |-> {0},
     senders |-> MailNames, receivers |-> MailNames, mtypes |-> {"Text"},
     contents |-> MailContents, for_sale |-> {""}, buyers |-> {"bob"},
     prices |-> Prices, new_owners |-> {Deployer},
     max_balance |-> MaxContractBalance, max_mailbox |-> MaxInbox,
     max_offers |-> MaxOffers]

MailNext ==
    \/ Call(MailInputs)
    \/ receive_result

SpecMail == Init /\ [][MailNext]_vars

\* Sale: both names are offered to either account at two prices, over several
\* blocks, while accounts are closed and names registered again; the book may
\* grow beyond one offer per name; "Alice" sends mail to "Bob"; free
\* registration as in the mail runs.
SaleInputs ==
    [accounts |-> Accounts, names |-> MailNames, values |-> {0}, fees |-> {0},
     senders |-> {"Alice"}, receivers |-> {"Bob"}, mtypes |-> {"Text"},
     contents |-> Contents, for_sale |-> MailNames, buyers |-> Accounts,
     prices |-> SalePrices, new_owners |-> {Deployer},
     max_balance |-> MaxContractBalance, max_mailbox |-> MaxMailbox,
     max_offers |-> MaxBook]

SaleNext ==
    \/ Call(SaleInputs)
    \/ receive_result
    \/ next_block

SpecSale == Init /\ [][SaleNext]_vars

\* One name: every payment and fee, two contents (so that a hash may match
\* no message) and a book that may take a second offer; every Error value
\* the messages return is reached.
OneNameInputs ==
    [accounts |-> Accounts, names |-> {"Alice"}, values |-> Values, fees |-> Fees,
     senders |-> {"Alice"}, receivers |-> {"Alice"}, mtypes |-> {"Text"},
     contents |-> MailContents, for_sale |-> {"Alice"}, buyers |-> Accounts,
     prices |-> Prices, new_owners |-> Accounts,
     max_balance |-> MaxContractBalance, max_mailbox |-> MaxMailbox,
     max_offers |-> MaxBook]

OneNameNext ==
    \/ Call(OneNameInputs)
    \/ receive_result

SpecOneName == Init /\ [][OneNameNext]_vars

\* Inbox: the deployer registers both names and "Alice" sends three contents
\* to both, whose mailboxes hold up to MaxLetters messages, so that a message
\* is deleted from before two others; free registration as in the mail runs.
InboxInputs ==
    [accounts |-> {Deployer}, names |-> MailNames, values |-> {0}, fees |-> {0},
     senders |-> {"Alice"}, receivers |-> MailNames, mtypes |-> {"Text"},
     contents |-> LetterContents, for_sale |-> {""}, buyers |-> {"bob"},
     prices |-> Prices, new_owners |-> {Deployer},
     max_balance |-> MaxContractBalance, max_mailbox |-> MaxLetters,
     max_offers |-> MaxOffers]

InboxNext ==
    \/ Call(InboxInputs)
    \/ receive_result

SpecInbox == Init /\ [][InboxNext]_vars

\* Book: three names are registered and offered for sale, so that the book
\* holds three offers and an offer is cancelled from before two others; free
\* registration as in the mail runs.
BookInputs ==
    [accounts |-> Accounts, names |-> BookNames, values |-> {0}, fees |-> {0},
     senders |-> {"Alice"}, receivers |-> {"Alice"}, mtypes |-> {"Text"},
     contents |-> Contents, for_sale |-> BookNames, buyers |-> {"bob"},
     prices |-> Prices, new_owners |-> {Deployer},
     max_balance |-> MaxContractBalance, max_mailbox |-> MaxMailbox,
     max_offers |-> MaxBook]

BookNext ==
    \/ Call(BookInputs)
    \/ receive_result

SpecBook == Init /\ [][BookNext]_vars

\* ================================================================ claims
\* The balance and the usernames an account has in the ledger (0 and none
\* when it has no entry).
balance_of(a) == IF users[a].some THEN users[a].v.balance ELSE 0
names_of(a) == IF users[a].some THEN unwrap_or(users[a].v.usernames, <<>>) ELSE <<>>
InSeq(x, s) == \E i \in 1..Len(s) : s[i] = x
owned_by(u, a) == usernames[u].some /\ usernames[u].v.account_id = a

RECURSIVE SumBalances(_)
SumBalances(S) ==
    IF S = {} THEN 0
    ELSE LET a == CHOOSE x \in S : TRUE
         IN  balance_of(a) + SumBalances(S \ {a})

\* The step is the call of register_username(name) by caller with transferred
\* attached; of op by caller; of op by caller with the transfer answer ok.
Registers(caller, name, transferred) ==
    /\ last'.op = "register_username" /\ last'.caller = caller
    /\ last'.args = <<name, transferred>>
Calls(op, caller) == last'.op = op /\ last'.caller = caller
CallsWith(op, caller, ok) == Calls(op, caller) /\ last'.args = <<ok>>

\* C1: in every reachable state, a username is in an account's usernames list
\* if and only if the registry entry of that username has that account as owner.
C1_UsernamesMatchRegistry ==
    \A a \in Accounts, u \in Names : InSeq(u, names_of(a)) <=> owned_by(u, a)

\* C2: value is never lost: the value attached to register_username so far,
\* less the value moved out by successful transfers (contract_balance), equals
\* the sum of the ledger balances plus the administration's accrued balance.
C2_ValueConserved ==
    contract_balance = SumBalances(Accounts) + owner.balance

\* C3: register_username of an unregistered name with less than the fee
\* returns PaymentFailed{received, required, missing}, leaves the caller's
\* balance at exactly its old balance plus the attached value, and creates
\* no registry entry.
C3_UnderpaymentCredited ==
    [][\A c \in Accounts, n \in Names, v \in Values :
         (Registers(c, n, v) /\ ~usernames[n].some /\ v < registration_fee)
         => /\ last'.result = PaymentFailed(v, registration_fee, registration_fee - v)
            /\ users'[c].some
            /\ balance_of(c)' = balance_of(c) + v
            /\ usernames' = usernames]_vars

\* C4: register_username of an unregistered name with exactly the fee
\* succeeds, adds exactly the fee to the administration's accrued balance and
\* leaves the caller's balance unchanged.
C4_ExactFeeToOwner ==
    [][\A c \in Accounts, n \in Names, v \in Values :
         (Registers(c, n, v) /\ ~usernames[n].some /\ v = registration_fee)
         => /\ last'.result = Ok
            /\ owner'.balance = owner.balance + registration_fee
            /\ balance_of(c)' = balance_of(c)]_vars

\* C5: register_username of an unregistered name with more than the fee
\* succeeds, adds exactly the fee to the administration's accrued balance and
\* exactly the excess to the caller's balance (with or without an entry
\* before), creates the registry entry owned by the caller and appends the
\* name to the caller's usernames.
C5_OverpaymentSplit ==
    [][\A c \in Accounts, n \in Names, v \in Values :
         (Registers(c, n, v) /\ ~usernames[n].some /\ v > registration_fee)
         => /\ last'.result = Ok
            /\ owner'.balance = owner.balance + registration_fee
            /\ balance_of(c)' = balance_of(c) + v - registration_fee
            /\ owned_by(n, c)'
            /\ names_of(c)' = Append(names_of(c), n)]_vars

\* C5 witness: an overpaying registration by an account that already had a
\* balance and a username has returned Ok.
C5_Witness ==
    /\ last.op = "register_username" /\ last.result = Ok
    /\ registration_fee > 0
    /\ last.args[2] > registration_fee
    /\ balance_of(last.caller) > last.args[2] - registration_fee
    /\ Len(names_of(last.caller)) >= 2

\* C6: register_username of a name that has a registry entry returns NameTaken
\* for every caller and attached value, and leaves the ledger, the registry,
\* the offer book and the administration record unchanged.
C6_NameTakenNoChange ==
    [][\A c \in Accounts, n \in Names, v \in Values :
         (Registers(c, n, v) /\ usernames[n].some)
         => (last'.result = Err("NameTaken") /\ UNCHANGED store)]_vars

\* C6 witness: an account that does not own the name has tried to register it
\* with a payment above the fee, while an offer is in the book.
C6_Witness ==
    /\ last.op = "register_username" /\ last.result = Err("NameTaken")
    /\ last.args[2] > registration_fee
    /\ ~owned_by(last.args[1], last.caller)
    /\ stored_offers # <<>>

\* C7: register_username with the empty name fails with InvalidName and
\* creates no registry entry, so that no reachable state has a registry entry
\* or a usernames element that is the empty name.
C7_NoEmptyUsername ==
    /\ ~usernames[""].some
    /\ \A a \in Accounts : ~InSeq("", names_of(a))

\* C8: co_set_fee, co_transfer_contract_ownership, co_owner_withdraw_all_balance
\* and co_set_code called by an account that is not the contract owner return
\* NotContractOwner, transfer nothing and leave all state unchanged.
OwnerOnly ==
    {"co_set_fee", "co_transfer_contract_ownership",
     "co_owner_withdraw_all_balance", "co_set_code"}

C8_OwnerOnly ==
    [][\A c \in Accounts :
         (last'.op \in OwnerOnly /\ last'.caller = c /\ c # owner.account_id)
         => (last'.result = Err("NotContractOwner") /\ UNCHANGED <<store, env>>)]_vars

\* C9: withdraw_balance returns NoBalance when the caller has no entry or a
\* zero balance and WithdrawFailed when the transfer fails; in both cases the
\* caller's balance and usernames and all other state are unchanged.
C9_WithdrawFailureNoChange ==
    [][\A c \in Accounts, ok \in BOOLEAN :
         CallsWith("withdraw_balance", c, ok)
         => /\ balance_of(c) = 0
                  => (last'.result = Err("NoBalance") /\ UNCHANGED <<store, env>>)
            /\ (balance_of(c) > 0 /\ ~ok)
                  => (last'.result = Err("WithdrawFailed") /\ UNCHANGED <<store, env>>)]_vars

\* C9 witness: the transfer of a positive balance has failed for an account
\* that owns a username.
C9_Witness ==
    /\ last.op = "withdraw_balance" /\ last.result = Err("WithdrawFailed")
    /\ balance_of(last.caller) > 0
    /\ names_of(last.caller) # <<>>

\* C10: close_account by an account with a positive balance whose payout
\* fails returns CloseAccountFailed and leaves the account's entry, the
\* registry entries it owns and the offer book unchanged.
C10_CloseFailureNoChange ==
    [][\A c \in Accounts :
         (CallsWith("close_account", c, FALSE) /\ balance_of(c) > 0)
         => (last'.result = Err("CloseAccountFailed") /\ UNCHANGED <<store, env>>)]_vars

\* C10 witness: the payout has failed for an account with a positive balance,
\* a username in the registry and an offer in the book.
C10_Witness ==
    /\ last.op = "close_account" /\ last.result = Err("CloseAccountFailed")
    /\ balance_of(last.caller) > 0
    /\ \E u \in Names : InSeq(u, names_of(last.caller)) /\ owned_by(u, last.caller)
    /\ stored_offers # <<>>

\* C11: a successful close_account by an account leaves it without a ledger
\* entry and leaves no registry entry with it as owner; the registry entries
\* of the other accounts are unchanged.
C11_CloseRemovesAccount ==
    [][\A c \in Accounts :
         (Calls("close_account", c) /\ last'.result = Ok)
         => /\ ~users'[c].some
            /\ \A u \in Names : ~owned_by(u, c)'
            /\ \A u \in Names : ~owned_by(u, c) => usernames'[u] = usernames[u]]_vars

\* C19: co_owner_withdraw_all_balance returns NoBalance when the accrued
\* balance is zero; otherwise it attempts one transfer of the whole accrued
\* balance to the current owner account, zeroes the accrued balance only if
\* the transfer succeeds, and on failure returns WithdrawFailed with the
\* accrued balance and all other state unchanged.
C19_OwnerWithdrawal ==
    [][\A c \in Accounts, ok \in BOOLEAN :
         CallsWith("co_owner_withdraw_all_balance", c, ok)
         => /\ owner.balance = 0
                  => /\ last'.result = Err("NoBalance")
                     /\ "transfer" \notin DOMAIN last'
                     /\ UNCHANGED <<store, env>>
            /\ owner.balance > 0
                  => last'.transfer = [to |-> owner.account_id, amount |-> owner.balance]
            /\ (owner.balance > 0 /\ ok)
                  => /\ last'.result = Ok
                     /\ owner' = OwnerInfo(owner.account_id, 0)
                     /\ contract_balance' = contract_balance - owner.balance
                     /\ UNCHANGED <<users, usernames, sale_offers,
                                    registration_fee, block_number>>
            /\ (owner.balance > 0 /\ ~ok)
                  => (last'.result = Err("WithdrawFailed") /\ UNCHANGED <<store, env>>)]_vars

\* C19 witness: the transfer of a positive accrued balance to an owner that
\* is not the deployer has failed.
C19_Witness ==
    /\ last.op = "co_owner_withdraw_all_balance"
    /\ last.result = Err("WithdrawFailed")
    /\ owner.balance > 0
    /\ owner.account_id # Deployer
    /\ last.transfer.to = owner.account_id

\* C20: a successful withdraw_balance transfers exactly the caller's stored
\* balance to the caller, sets the stored balance to zero, keeps the entry and
\* its usernames (get_balance then returns the stored 0, not NoAccount), and
\* changes no other account, no registry entry and no offer.
C20_WithdrawSuccess ==
    [][\A c \in Accounts :
         /\ (Calls("withdraw_balance", c) /\ last'.result = Ok)
            => /\ last'.transfer = [to |-> c, amount |-> balance_of(c)]
               /\ contract_balance' = contract_balance - balance_of(c)
               /\ users[c].some
               /\ users'[c] = Some(UserInfo(users[c].v.usernames, 0))
               /\ \A a \in Accounts \ {c} : users'[a] = users[a]
               /\ UNCHANGED <<usernames, sale_offers, owner, registration_fee,
                              block_number>>
         /\ (Calls("get_balance", c) /\ users[c].some)
            => last'.result = OkVal(users[c].v.balance)]_vars

\* C20 witness: the withdrawal of an account that has a username has
\* succeeded while another account has a positive balance.
C20_Witness ==
    /\ last.op = "withdraw_balance" /\ last.result = Ok
    /\ last.transfer.amount > 0
    /\ names_of(last.caller) # <<>>
    /\ users[last.caller].some /\ balance_of(last.caller) = 0
    /\ \E a \in Accounts \ {last.caller} : balance_of(a) > 0

\* The mailbox of a username (empty when it has none or is not registered),
\* and a sequence without its element at position i.
mailbox(u) == IF usernames[u].some THEN unwrap_or(usernames[u].v.messages, <<>>) ELSE <<>>
Without(s, i) == [j \in 1..(Len(s) - 1) |-> IF j < i THEN s[j] ELSE s[j + 1]]
FirstWithHash(s, hash) ==
    CHOOSE i \in 1..Len(s) :
        s[i].hash = hash /\ \A j \in 1..(i - 1) : s[j].hash # hash

\* The step is the return of delete_message(u, ..) to caller; of
\* send_message(from, to, ..) to caller.
Deletes(caller, u) ==
    last'.op = "delete_message" /\ last'.caller = caller /\ last'.args[1] = u
Sends(caller, from, to) ==
    /\ last'.op = "send_message" /\ last'.caller = caller
    /\ last'.args[1] = from /\ last'.args[2] = to

\* C12: when a mailbox holds several messages with the same hash, a successful
\* delete_message with that hash removes the first of them and leaves the
\* later ones in the mailbox.
C12_DeleteFirstDuplicate ==
    [][\A c \in Accounts, u \in Names :
         (Deletes(c, u) /\ last'.result = Ok)
         => mailbox(u)' = Without(mailbox(u), FirstWithHash(mailbox(u), last'.args[2]))]_vars

\* C13: a successful delete_message on a username shortens its mailbox by
\* exactly one message, keeps the other messages in their order and leaves
\* the other mailboxes, the username's owner and fee_payment_time, the ledger
\* and the offer book unchanged; a failing delete_message changes nothing.
C13_DeleteFrame ==
    [][\A c \in Accounts, u \in Names :
         Deletes(c, u)
         => IF last'.result = Ok
            THEN /\ Len(mailbox(u)') = Len(mailbox(u)) - 1
                 /\ \E i \in 1..Len(mailbox(u)) : mailbox(u)' = Without(mailbox(u), i)
                 /\ \A w \in Names \ {u} : usernames'[w] = usernames[w]
                 /\ usernames'[u].some
                 /\ usernames'[u].v.account_id = usernames[u].v.account_id
                 /\ usernames'[u].v.fee_payment_time = usernames[u].v.fee_payment_time
                 /\ UNCHANGED <<users, sale_offers, owner, registration_fee, env>>
            ELSE UNCHANGED <<store, env>>]_vars

\* C13 witness: a message has been deleted from a mailbox of three, the two
\* that stay differ from it and from each other, and the other username has
\* mail too.
C13_Witness ==
    /\ last.op = "delete_message" /\ last.result = Ok
    /\ Len(mailbox(last.args[1])) = 2
    /\ mailbox(last.args[1])[1].hash # mailbox(last.args[1])[2].hash
    /\ \A i \in 1..2 : mailbox(last.args[1])[i].hash # last.args[2]
    /\ \E w \in Names \ {last.args[1]} : mailbox(w) # <<>>

\* C17: send_message fails without changing any state with NameNonexistent(from)
\* if from is not registered (whatever to is), else with WrongAccount(from) if
\* the caller does not own from (whatever to is), else with
\* NameNonexistent(to) if to is not registered.
C17_SendChecks ==
    [][\A c \in Accounts, f \in Names, t \in Names :
         Sends(c, f, t)
         => /\ ~usernames[f].some
                  => /\ last'.result = ErrName("NameNonexistent", f)
                     /\ UNCHANGED <<store, env>>
            /\ (usernames[f].some /\ ~owned_by(f, c))
                  => /\ last'.result = ErrName("WrongAccount", f)
                     /\ UNCHANGED <<store, env>>
            /\ (owned_by(f, c) /\ ~usernames[t].some)
                  => /\ last'.result = ErrName("NameNonexistent", t)
                     /\ UNCHANGED <<store, env>>]_vars

\* C17 witness: a caller that does not own from has sent to a name that is
\* not registered, and got WrongAccount(from).
C17_Witness ==
    /\ last.op = "send_message"
    /\ last.result = ErrName("WrongAccount", last.args[1])
    /\ last.args[1] # last.args[2]
    /\ ~usernames[last.args[2]].some

\* C18: a successful send_message(from, to, ..) appends exactly one message,
\* with sender from, at the end of to's mailbox and changes nothing else; so
\* the mailbox is the successful sends in their order, get_all_messages by
\* the owner returns exactly the mailbox, and a successful delete_message
\* leaves one message fewer.
C18_SendAppends ==
    [][\A c \in Accounts, t \in Names :
         /\ (last'.op = "send_message" /\ last'.caller = c
                /\ last'.args[2] = t /\ last'.result = Ok)
            => /\ Len(mailbox(t)') = Len(mailbox(t)) + 1
               /\ SubSeq(mailbox(t)', 1, Len(mailbox(t))) = mailbox(t)
               /\ mailbox(t)'[Len(mailbox(t)) + 1].from = last'.args[1]
               /\ mailbox(t)'[Len(mailbox(t)) + 1].mtype = last'.args[3]
               /\ mailbox(t)'[Len(mailbox(t)) + 1].content = last'.args[4]
               /\ usernames'[t].v.account_id = usernames[t].v.account_id
               /\ usernames'[t].v.fee_payment_time = usernames[t].v.fee_payment_time
               /\ \A w \in Names \ {t} : usernames'[w] = usernames[w]
               /\ UNCHANGED <<users, sale_offers, owner, registration_fee, env>>
         /\ (last'.op = "get_all_messages" /\ last'.caller = c
                /\ last'.args = <<t>> /\ owned_by(t, c) /\ mailbox(t) # <<>>)
            => last'.result = OkVal(mailbox(t))
         /\ (Deletes(c, t) /\ last'.result = Ok)
            => Len(mailbox(t)') = Len(mailbox(t)) - 1]_vars

\* C18 witness: the owner has read a mailbox of two messages from different
\* senders.
C18_Witness ==
    /\ last.op = "get_all_messages" /\ last.result.tag = "Ok"
    /\ Len(last.result.v) = 2
    /\ last.result.v[1].from # last.result.v[2].from
    /\ last.result.v = mailbox(last.args[1])

\* The offers for a username in the book.
offers_for(u) == {i \in 1..Len(stored_offers) : stored_offers[i].username = u}

\* C14: in every reachable state the offer book holds at most one offer per
\* username, whatever the interleaving of sell_username_to, cancel_sale,
\* close_account and registrations.
C14_OneOfferPerUsername ==
    \A u \in Names : Cardinality(offers_for(u)) <= 1

\* C14 witness: the owner of a name has been refused a second offer for it
\* while the book also holds the offer left by a closed account.
C14_Witness ==
    /\ last.op = "sell_username_to" /\ last.result = Err("UsernameAlreadyInSale")
    /\ Len(stored_offers) = 2
    /\ \E i \in 1..Len(stored_offers) : ~usernames[stored_offers[i].username].some

\* C15: for a username owned by the caller, sell_username_to succeeds exactly
\* when the book has no offer for it and otherwise returns
\* UsernameAlreadyInSale without changing the book; a successful cancel_sale
\* leaves no offer for the username and none appears before the next
\* sell_username_to for it, which then succeeds and leaves exactly its offer
\* (username, to, price) for the username in the book.
C15_SellAfterCancel ==
    [][\A c \in Accounts, u \in Names :
         /\ (last'.op = "sell_username_to" /\ last'.caller = c
                /\ last'.args[1] = u /\ owned_by(u, c))
            => IF offers_for(u) = {}
               THEN /\ last'.result = Ok
                    /\ stored_offers' =
                          Append(stored_offers, Sale(u, last'.args[2], last'.args[3]))
                    /\ Cardinality(offers_for(u)') = 1
               ELSE /\ last'.result = Err("UsernameAlreadyInSale")
                    /\ UNCHANGED <<store, env>>
         /\ (last'.op = "cancel_sale" /\ last'.caller = c
                /\ last'.args[1] = u /\ last'.result = Ok)
            => offers_for(u)' = {}
         /\ (offers_for(u) = {}
                /\ ~(last'.op = "sell_username_to" /\ last'.args[1] = u))
            => offers_for(u)' = {}]_vars

\* C15 witness: the owner of a name has been refused an offer to another
\* buyer at another price than the offer in the book.
C15_Witness ==
    /\ last.op = "sell_username_to" /\ last.result = Err("UsernameAlreadyInSale")
    /\ owned_by(last.args[1], last.caller)
    /\ \E i \in offers_for(last.args[1]) :
          /\ stored_offers[i].to # last.args[2]
          /\ stored_offers[i].price # last.args[3]

\* C16: get_all_messages, delete_message, delete_all_messages,
\* sell_username_to and cancel_sale called by an account that is not the
\* owner of the username return WrongAccount(username), or
\* NameNonexistent(username) if it is not registered, return no message and
\* leave all state unchanged.
OwnerGated ==
    {"get_all_messages", "delete_message", "delete_all_messages",
     "sell_username_to", "cancel_sale"}

C16_OwnerGated ==
    [][\A c \in Accounts, u \in Names :
         (last'.op \in OwnerGated /\ last'.caller = c
             /\ last'.args[1] = u /\ ~owned_by(u, c))
         => /\ last'.result = IF usernames[u].some
                              THEN ErrName("WrongAccount", u)
                              ELSE ErrName("NameNonexistent", u)
            /\ UNCHANGED <<store, env>>]_vars

\* C16 witness: an account has been refused the mailbox of a name it does
\* not own, which holds a message and has an offer in the book.
C16_Witness ==
    /\ last.op = "get_all_messages"
    /\ last.result = ErrName("WrongAccount", last.args[1])
    /\ mailbox(last.args[1]) # <<>>
    /\ offers_for(last.args[1]) # {}

\* C21: get_sale_propositions returns exactly the offers of the book whose
\* target is the caller, in book order, returns NoSalesForYou when there are
\* none (also when nothing or no book is stored), and changes no state.
C21_SalePropositions ==
    [][\A c \in Accounts :
         Calls("get_sale_propositions", c)
         => /\ UNCHANGED <<store, env>>
            /\ LET to_caller(s) == s.to = c
                   mine == SelectSeq(stored_offers, to_caller)
               IN  last'.result = IF mine = <<>> THEN Err("NoSalesForYou")
                                  ELSE OkVal(mine)]_vars

\* C21 witness: an account has been given the one offer made to it out of a
\* book of two.
C21_Witness ==
    /\ last.op = "get_sale_propositions" /\ last.result.tag = "Ok"
    /\ Len(last.result.v) = 1
    /\ Len(stored_offers) = 2
    /\ stored_offers[2] = last.result.v[1]

\* C22: cancel_sale of a username by its owner returns UsernameNotInSale and
\* changes nothing when the book has no offer for it; otherwise it removes
\* exactly that offer and leaves the other offers in their order, the ledger
\* and the registry unchanged.
C22_CancelFrame ==
    [][\A c \in Accounts, u \in AllNames :
         (last'.op = "cancel_sale" /\ last'.caller = c
             /\ last'.args = <<u>> /\ owned_by(u, c))
         => IF offers_for(u) = {}
            THEN /\ last'.result = Err("UsernameNotInSale")
                 /\ UNCHANGED <<store, env>>
            ELSE /\ last'.result = Ok
                 /\ \E i \in offers_for(u) : stored_offers' = Without(stored_offers, i)
                 /\ offers_for(u)' = {}
                 /\ UNCHANGED <<users, usernames, owner, registration_fee, env>>]_vars

\* C22 witness: one of three offers has been cancelled and the offers for the
\* caller's two other names are still in the book.
C22_Witness ==
    /\ last.op = "cancel_sale" /\ last.result = Ok
    /\ Len(stored_offers) = 2
    /\ stored_offers[1].username # stored_offers[2].username
    /\ \A i \in 1..2 : /\ stored_offers[i].username # last.args[1]
                        /\ owned_by(stored_offers[i].username, last.caller)

\* C23: every call of every message, in every reachable state and for every
\* caller and input, returns a success value or a typed Error value; no
\* message (buy_username and refuse_to_buy included) aborts.
C23_NoAbort ==
    last # Idle => last.result.tag # Panic.tag

\* C25: the contract owner and the registration fee change only by a
\* successful co_transfer_contract_ownership / co_set_fee called by the owner
\* of the moment; check_fee returns the fee last set (1 at first) and that fee
\* is the one register_username applies; once the ownership has gone to
\* another account, the owner-gated calls of the former owner return
\* NotContractOwner and those of the new owner succeed.
C25_Administration ==
    [][/\ last.op = "new" => registration_fee = 1
       /\ owner'.account_id # owner.account_id
            => /\ last'.op = "co_transfer_contract_ownership"
               /\ last'.caller = owner.account_id
               /\ last'.result = Ok
               /\ owner'.account_id = last'.args[1]
       /\ registration_fee' # registration_fee
            => /\ last'.op = "co_set_fee"
               /\ last'.caller = owner.account_id
               /\ last'.result = Ok
               /\ registration_fee' = last'.args[1]
       /\ \A c \in Accounts :
            Calls("check_fee", c) => last'.result = OkVal(registration_fee)
       /\ \A c \in Accounts, n \in Names, v \in Values :
            (Registers(c, n, v) /\ ~usernames[n].some)
            => last'.result =
                  IF v >= registration_fee THEN Ok
                  ELSE PaymentFailed(v, registration_fee, registration_fee - v)
       /\ (owner.account_id # Deployer /\ last'.op \in OwnerOnly
              /\ last'.caller = Deployer)
            => last'.result = Err("NotContractOwner")
       /\ (owner.account_id # Deployer
              /\ last'.op \in {"co_set_fee", "co_transfer_contract_ownership"}
              /\ last'.caller = owner.account_id)
            => last'.result = Ok]_vars

\* C26: in every reachable state every offer of the book names a username
\* that has a registry entry, and was made by the present owner of that
\* entry: an offer is made by the owner of the name, and while it is in the
\* book the name stays registered to the same owner.
C26_OffersHaveSellers ==
    [][\A u \in Names :
         offers_for(u)' # {}
         => /\ usernames'[u].some
            /\ IF offers_for(u) = {}
               THEN last'.caller = usernames'[u].v.account_id
               ELSE /\ usernames[u].some
                    /\ usernames'[u].v.account_id = usernames[u].v.account_id]_vars

\* C24: delete_all_messages of a username by its owner leaves it with an
\* absent mailbox, keeps its owner and fee_payment_time and all other state,
\* and changes nothing when the mailbox is already absent (a second call
\* succeeds with the same state); while the mailbox is absent the owner's
\* get_all_messages and delete_message (any hash) return NoMessages, and only
\* a successful send_message to the username gives it a mailbox again.
C24_DeleteAll ==
    [][\A c \in Accounts, u \in Names :
         /\ (last'.op = "delete_all_messages" /\ last'.caller = c
                /\ last'.args = <<u>> /\ owned_by(u, c))
            => /\ last'.result = Ok
               /\ usernames' = [usernames EXCEPT ![u] =
                     Some(UsernameInfo(c, None, usernames[u].v.fee_payment_time))]
               /\ UNCHANGED <<users, sale_offers, owner, registration_fee, env>>
               /\ ~usernames[u].v.messages.some => UNCHANGED store
         /\ (last'.op \in {"get_all_messages", "delete_message"}
                /\ last'.caller = c /\ last'.args[1] = u
                /\ owned_by(u, c) /\ ~usernames[u].v.messages.some)
            => /\ last'.result = Err("NoMessages")
               /\ UNCHANGED <<store, env>>
         /\ (usernames[u].some /\ ~usernames[u].v.messages.some
                /\ usernames'[u].some /\ usernames'[u].v.messages.some)
            => /\ last'.op = "send_message"
               /\ last'.args[2] = u
               /\ last'.result = Ok]_vars

\* C24 witness: the owner has cleared a mailbox while the other username
\* holds two messages.
C24_Witness ==
    /\ last.op = "delete_all_messages" /\ last.result = Ok
    /\ ~usernames[last.args[1]].v.messages.some
    /\ \E w \in Names \ {last.args[1]} : Len(mailbox(w)) = 2

\* C29: the owner and the fee_payment_time of a registered username do not
\* change while its registry entry exists: the entry is created by a
\* successful register_username, for its caller at the time of the call, is
\* removed only by a successful close_account of its owner, and no call of
\* any message by any caller alters the two fields in between.
C29_OwnerStable ==
    [][\A u \in Names :
         /\ (usernames[u].some /\ usernames'[u].some)
            => /\ usernames'[u].v.account_id = usernames[u].v.account_id
               /\ usernames'[u].v.fee_payment_time = usernames[u].v.fee_payment_time
         /\ (usernames[u].some /\ ~usernames'[u].some)
            => /\ last'.op = "close_account" /\ last'.result = Ok
               /\ last'.caller = usernames[u].v.account_id
         /\ (~usernames[u].some /\ usernames'[u].some)
            => /\ last'.op = "register_username" /\ last'.result = Ok
               /\ last'.args[1] = u
               /\ usernames'[u].v.account_id = last'.caller
               /\ usernames'[u].v.fee_payment_time = block_timestamp]_vars

\* C29 witness: the owner has deleted a message from the mailbox of a name
\* registered in an earlier block.
C29_Witness ==
    /\ last.op = "delete_message" /\ last.result = Ok
    /\ usernames[last.args[1]].v.fee_payment_time < block_number
    /\ usernames[last.args[1]].v.account_id = last.caller

\* C27: no value is paid out twice.  The balance of an account rises only by
\* its own register_username; a successful transfer to an account by
\* withdraw_balance or close_account is of exactly its stored balance, which
\* is then zero (or gone with the entry); the contract's value falls only by
\* such a transfer or the owner's; so what an account has been paid never
\* exceeds what register_username has credited to it.  A withdraw_balance at
\* balance zero, as right after a successful one, returns NoBalance and
\* transfers nothing.
C27_NoDoublePayout ==
    [][\A a \in Accounts :
         /\ balance_of(a)' > balance_of(a)
            => (last'.op = "register_username" /\ last'.caller = a)
         /\ (last'.op \in {"withdraw_balance", "close_account"}
                /\ "transfer" \in DOMAIN last' /\ last'.caller = a)
            => /\ last'.transfer = [to |-> a, amount |-> balance_of(a)]
               /\ balance_of(a) > 0
               /\ IF last'.result = Ok
                  THEN /\ balance_of(a)' = 0
                       /\ contract_balance' = contract_balance - balance_of(a)
                  ELSE UNCHANGED <<store, env>>
         /\ (last'.op \in {"withdraw_balance", "close_account"}
                /\ "transfer" \notin DOMAIN last')
            => contract_balance' = contract_balance
         /\ contract_balance' < contract_balance
            => ("transfer" \in DOMAIN last' /\ last'.result = Ok)
         /\ (Calls("withdraw_balance", a) /\ balance_of(a) = 0)
            => /\ last'.result = Err("NoBalance")
               /\ "transfer" \notin DOMAIN last'
               /\ UNCHANGED <<store, env>>]_vars

\* C27 witness: an account whose entry has a username and a zero balance has
\* been refused a withdrawal while the contract holds value for another.
C27_Witness ==
    /\ last.op = "withdraw_balance" /\ last.result = Err("NoBalance")
    /\ users[last.caller].some
    /\ names_of(last.caller) # <<>>
    /\ \E a \in Accounts \ {last.caller} : balance_of(a) > 0

\* C30: mailboxes do not pass to a later owner.  A successful close_account
\* removes the registry entry of every username of the account's list; an
\* unregistered name is registered by any account that pays at least the
\* fee, with an absent mailbox; the owner's get_all_messages on an empty
\* mailbox returns NoMessages, and a mailbox gets its first message only by
\* a successful send_message to the name.
C30_NoMailboxLeak ==
    [][\A c \in Accounts, u \in Names :
         /\ (Calls("close_account", c) /\ last'.result = Ok
                /\ InSeq(u, names_of(c)))
            => ~usernames'[u].some
         /\ (last'.op = "register_username" /\ last'.caller = c
                /\ last'.args[1] = u /\ ~usernames[u].some
                /\ last'.args[2] >= registration_fee)
            => /\ last'.result = Ok
               /\ usernames'[u] = Some(UsernameInfo(c, None, block_timestamp))
         /\ (last'.op = "get_all_messages" /\ last'.caller = c
                /\ last'.args = <<u>> /\ owned_by(u, c) /\ mailbox(u) = <<>>)
            => last'.result = Err("NoMessages")
         /\ (mailbox(u) = <<>> /\ mailbox(u)' # <<>>)
            => /\ last'.op = "send_message" /\ last'.result = Ok
               /\ last'.args[2] = u]_vars

\* C30 witness: a name whose former owner has closed its account (the offer
\* it made is still in the book) has been registered again by another
\* account, and has no mailbox.
C30_Witness ==
    /\ last.op = "register_username" /\ last.result = Ok
    /\ offers_for(last.args[1]) # {}
    /\ last.caller # Deployer
    /\ owned_by(last.args[1], last.caller)
    /\ ~usernames[last.args[1]].v.messages.some

\* The Error values the messages return.
ErrorTags ==
    {"NameTaken", "NameNonexistent", "WrongAccount", "NoAccount", "NoNames",
     "NoMessages", "MessageNonexistent", "PaymentFailed", "NoBalance",
     "WithdrawFailed", "UsernameAlreadyInSale", "UsernameNotInSale",
     "NoSalesForYou", "CloseAccountFailed", "NotContractOwner", "UpgradeFailed"}

\* C28: a call that returns an error other than PaymentFailed leaves the
\* ledger, the registry with its mailboxes, the offer book and the
\* administration record as they were; PaymentFailed is the only error
\* returned after a write.
C28_ErrorsChangeNothing ==
    [][(last' # Idle /\ last'.result.tag \in ErrorTags \ {"PaymentFailed"})
         => UNCHANGED store]_vars

\* C28 witness: a delete_message whose hash matches no message has returned
\* MessageNonexistent while the account has a balance and the name an offer.
C28_Witness ==
    /\ last.op = "delete_message" /\ last.result = Err("MessageNonexistent")
    /\ balance_of(last.caller) > 0
    /\ offers_for(last.args[1]) # {}
====
